---- MODULE Spec2Model ----
(***************************************************************************)
(* Host manager of the streaming client: NvComputer (host record, merge,   *)
(* address list, wake) and ComputerManager (host table, polling workers,   *)
(* discovery, persistence), from app/backend/computermanager.cpp.          *)
(***************************************************************************)
EXTENDS Integers, Sequences, FiniteSets, TLC

VARIABLES
    m_KnownHosts,        \* QMap<QString, NvComputer*>: uuid -> record pointer
    m_PollThreads,       \* QMap<QString, QThread*>: uuid -> worker pointer
    m_Polling,           \* bool
    m_MdnsBrowser,       \* TRUE when the browser object exists (non-null)
    m_PendingResolution, \* QList<MdnsPendingComputer*>
    m_Lock,              \* manager QReadWriteLock: [w: holder, r: set of holders]
    computers,           \* heap of NvComputer objects, by pointer
    compLock,            \* the lock embedded in each NvComputer
    threads,             \* heap of PcMonitorThread objects, by pointer
    settings,            \* QSettings: the persisted host array
    eventQueue,          \* queued slot invocations posted to the manager's thread
    pc,                  \* position of each calling thread
    frame,               \* locals of each calling thread's current call
    lastEmit,            \* the computerStateChanged emission made by the last step
    pre,                 \* shared state when the observed call began
    used,                \* how much of each bound the run has used
    fx                   \* function under test (pure-function specifications)

vars == <<m_KnownHosts, m_PollThreads, m_Polling, m_MdnsBrowser,
          m_PendingResolution, m_Lock, computers, compLock, threads,
          settings, eventQueue, pc, frame, lastEmit, pre, used, fx>>

mgrVars == <<m_KnownHosts, m_PollThreads, m_Polling, m_MdnsBrowser,
             m_PendingResolution, m_Lock, computers, compLock, threads,
             settings, eventQueue, pc, frame, lastEmit, pre, used>>

-----------------------------------------------------------------------------
(* Qt value types.                                                         *)

\* A QString is a TLA+ string; the null QString is a distinguished value.
QNull == "<null>"

\* QString::isNull
IsNull(s) == s = QNull

\* QString::isEmpty: true of the null string and of "".
IsEmpty(s) == s = QNull \/ s = ""

\* The characters of a QString (null and "" hold none).
Chars(s) == IF s = QNull THEN "" ELSE s

\* QString operator==: compares characters, so null == "".
QStrEq(a, b) == Chars(a) = Chars(b)

\* A QByteArray: its bytes and whether it is the null array.
NullBytes == [null |-> TRUE, bytes |-> <<>>]

\* QByteArray::append(char) (appending makes a null array non-null).
AppendByte(ba, b) == [null |-> FALSE, bytes |-> Append(ba.bytes, b)]

\* NvComputer::PairState and NvComputer::ComputerState
PS_UNKNOWN == "PS_UNKNOWN"
PS_PAIRED == "PS_PAIRED"
PS_NOT_PAIRED == "PS_NOT_PAIRED"
CS_UNKNOWN == "CS_UNKNOWN"
CS_ONLINE == "CS_ONLINE"
CS_OFFLINE == "CS_OFFLINE"

-----------------------------------------------------------------------------
(* Bounds of the model.                                                    *)

\* How many NvComputer objects the manager may allocate in one run.
MaxComputers == 2
\* How many PcMonitorThread objects may be started in one run.
MaxThreads == 2
\* How many posted notifications the event queue may hold.
MaxQueue == 1
\* How many polls all workers together may make in one run.
MaxPolls == 1
\* How many services the discovery browser may report in one run.
MaxServices == 1
\* How many calls the calling threads may begin in one run.
MaxCalls == 3
\* Merges and reloads applied to one record.
MaxRecordSteps == 3

-----------------------------------------------------------------------------
(* The server's status payload (NvHTTP::getServerInfo) and its parsing.    *)

\* A tag whose characters the code inspects (mac, ServerCodecModeSupport) is
\* a QString kept as its sequence of one-character strings.
Text(chars) == [null |-> FALSE, chars |-> chars]
TextNull == [null |-> TRUE, chars |-> <<>>]

MAC_ZERO == Text(<<"0","0",":","0","0",":","0","0",":","0","0",":","0","0",":","0","0">>)
MAC_DEN == Text(<<"A","A",":","B","B",":","C","C",":","D","D",":","E","E",":","F","F">>)

\* QString::split(':'): the parts between separators, empty ones kept; the
\* null or empty string splits into one empty part.
RECURSIVE SplitFrom(_, _, _)
SplitFrom(chars, i, cur) ==
    IF i > Len(chars) THEN <<cur>>
    ELSE IF chars[i] = ":" THEN <<cur>> \o SplitFrom(chars, i + 1, <<>>)
    ELSE SplitFrom(chars, i + 1, Append(cur, chars[i]))

Split(s) == SplitFrom(s.chars, 1, <<>>)

HexDigits == <<"0","1","2","3","4","5","6","7","8","9","A","B","C","D","E","F">>

DigitValue(c, base) ==
    LET hit == {k \in 1..base : HexDigits[k] = c}
    IN  IF hit = {} THEN -1 ELSE (CHOOSE k \in hit : TRUE) - 1

\* QString::toInt(nullptr, base): 0 when the text is empty or holds a
\* character that is no digit of the base.
RECURSIVE ParseFrom(_, _, _, _)
ParseFrom(chars, i, base, acc) ==
    IF i > Len(chars) THEN acc
    ELSE IF DigitValue(chars[i], base) < 0 THEN 0
    ELSE ParseFrom(chars, i + 1, base, acc * base + DigitValue(chars[i], base))

ToInt(chars, base) ==
    IF chars = <<>> THEN 0 ELSE ParseFrom(chars, 1, base, 0)

\* (char) of an int keeps the low eight bits.
ToChar(n) == n % 256

\* Lines 90-96: the mac tag becomes macAddress, one byte per part, unless
\* the tag is exactly 00:00:00:00:00:00.
RECURSIVE AppendOctets(_, _, _)
AppendOctets(ba, macOctets, i) ==
    IF i > Len(macOctets) THEN ba
    ELSE AppendOctets(AppendByte(ba, ToChar(ToInt(macOctets[i], 16))), macOctets, i + 1)

ParseMac(newMacString) ==
    IF newMacString.chars # MAC_ZERO.chars
    THEN AppendOctets(NullBytes, Split(newMacString), 1)
    ELSE NullBytes

\* NvHTTP::getXmlString: the text of a tag, the null string when absent.
getXmlString(serverInfo, tag) == serverInfo[tag]

\* The addresses hosts are reached at.
ADDR_MANUAL == "192.0.2.10"
ADDR_LAN == "10.0.0.2"
Addresses == {ADDR_MANUAL, ADDR_LAN}

\* The host identities, in QString order.
UuidOrder == <<"X", "Y">>
Uuids == {UuidOrder[k] : k \in 1..Len(UuidOrder)}

\* Status payloads a server may answer with.
INFO_DEN ==
    [hostname |-> "Den-PC", uniqueid |-> "X", mac |-> MAC_DEN,
     ServerCodecModeSupport |-> Text(<<"3">>), LocalIP |-> ADDR_LAN,
     ExternalIP |-> QNull, PairStatus |-> "1", currentgame |-> 0,
     appversion |-> "7.1.400.0", GfeVersion |-> "3.13"]

\* A partial payload: optional tags absent, no mac known, not paired.
INFO_DEN_BARE ==
    [hostname |-> QNull, uniqueid |-> "X", mac |-> MAC_ZERO,
     ServerCodecModeSupport |-> TextNull, LocalIP |-> QNull,
     ExternalIP |-> QNull, PairStatus |-> "0", currentgame |-> 0,
     appversion |-> QNull, GfeVersion |-> QNull]

\* A second host, whose payload carries no mac tag at all.
INFO_LAB ==
    [hostname |-> "Lab-PC", uniqueid |-> "Y", mac |-> TextNull,
     ServerCodecModeSupport |-> Text(<<"1">>), LocalIP |-> QNull,
     ExternalIP |-> "203.0.113.5", PairStatus |-> "1", currentgame |-> 7,
     appversion |-> "7.1.400.0", GfeVersion |-> QNull]

ServerInfos == {INFO_DEN, INFO_DEN_BARE, INFO_LAB}

\* App lists a worker may have fetched.
APP_GAME_A == [name |-> "Game A", id |-> 1, hdrSupported |-> FALSE]
AppLists == {<<>>, <<APP_GAME_A>>}

-----------------------------------------------------------------------------
(* NvComputer: construction, persistence, merge.                           *)

\* NvHTTP::getCurrentGame: the running game the payload reports.
getCurrentGame(serverInfo) == serverInfo.currentgame

\* NvComputer::NvComputer(QString address, QString serverInfo), lines 82-115.
\* manualAddress and appList are not assigned: they stay default-constructed.
NvComputerFromServerInfo(address, serverInfo) ==
    LET hostname == getXmlString(serverInfo, "hostname")
        codecSupport == getXmlString(serverInfo, "ServerCodecModeSupport")
    IN  [name |-> IF IsNull(hostname) THEN "UNKNOWN" ELSE hostname,
         uuid |-> getXmlString(serverInfo, "uniqueid"),
         macAddress |-> ParseMac(getXmlString(serverInfo, "mac")),
         serverCodecModeSupport |->
             IF ~codecSupport.null THEN ToInt(codecSupport.chars, 10) ELSE 0,
         localAddress |-> getXmlString(serverInfo, "LocalIP"),
         remoteAddress |-> getXmlString(serverInfo, "ExternalIP"),
         manualAddress |-> QNull,
         pairState |-> IF QStrEq(getXmlString(serverInfo, "PairStatus"), "1")
                       THEN PS_PAIRED ELSE PS_NOT_PAIRED,
         currentGameId |-> getCurrentGame(serverInfo),
         appVersion |-> getXmlString(serverInfo, "appversion"),
         gfeVersion |-> getXmlString(serverInfo, "GfeVersion"),
         activeAddress |-> address,
         state |-> CS_ONLINE,
         appList |-> <<>>]

\* QSettings keeps a QString as its characters and a QByteArray as its bytes
\* ("@ByteArray(...)"): what is read back is never the null value.
StoredString(s) == Chars(s)
StoredBytes(ba) == ba.bytes
LoadedBytes(v) == [null |-> FALSE, bytes |-> v]

\* NvComputer::NvComputer(QSettings&), lines 22-52, on one entry of the
\* persisted array.
NvComputerFromSettings(entry) ==
    [name |-> entry.hostname,
     uuid |-> entry.uuid,
     macAddress |-> LoadedBytes(entry.mac),
     serverCodecModeSupport |-> entry.codecsupport,
     localAddress |-> entry.localaddress,
     remoteAddress |-> entry.remoteaddress,
     manualAddress |-> entry.manualaddress,
     appList |-> entry.apps,
     activeAddress |-> QNull,
     currentGameId |-> 0,
     pairState |-> PS_UNKNOWN,
     state |-> CS_UNKNOWN,
     gfeVersion |-> QNull,
     appVersion |-> QNull]

\* NvComputer::serialize, lines 54-80, into the current array entry, whose
\* app array held oldApps: the app array is rewritten only when appList is
\* not empty.
serialize(computer, oldApps) ==
    [hostname |-> StoredString(computer.name),
     uuid |-> StoredString(computer.uuid),
     mac |-> StoredBytes(computer.macAddress),
     codecsupport |-> computer.serverCodecModeSupport,
     localaddress |-> StoredString(computer.localAddress),
     remoteaddress |-> StoredString(computer.remoteAddress),
     manualaddress |-> StoredString(computer.manualAddress),
     apps |-> IF computer.appList # <<>> THEN computer.appList ELSE oldApps]

StringFields == {"name", "uuid", "localAddress", "remoteAddress",
                 "manualAddress", "activeAddress", "gfeVersion", "appVersion"}

\* this->field != that.field, by the field's type.
FieldDiffers(field, a, b) ==
    IF field \in StringFields THEN ~QStrEq(a, b)
    ELSE IF field = "macAddress" THEN a.bytes # b.bytes
    ELSE a # b

\* that.field.isEmpty(), by the field's type.
FieldIsEmpty(field, v) ==
    IF field \in StringFields THEN IsEmpty(v)
    ELSE IF field = "macAddress" THEN v.bytes = <<>>
    ELSE v = <<>>

\* Mutant of ASSIGN_IF_CHANGED: changed is set outside the comparison.
AssignAndFlag(acc, that, field) ==
    [acc EXCEPT !.computer[field] = that[field], !.changed = TRUE]

\* ASSIGN_IF_CHANGED, lines 218-222.
ASSIGN_IF_CHANGED(acc, that, field) ==
    IF FieldDiffers(field, acc.computer[field], that[field])
    THEN [acc EXCEPT !.computer[field] = that[field], !.changed = TRUE]
    ELSE acc

\* Mutant of ASSIGN_IF_CHANGED_AND_NONEMPTY: the isEmpty test is missing.
AssignEvenIfEmpty(acc, that, field) ==
    IF FieldDiffers(field, acc.computer[field], that[field])
    THEN [acc EXCEPT !.computer[field] = that[field], !.changed = TRUE]
    ELSE acc

\* ASSIGN_IF_CHANGED_AND_NONEMPTY, lines 224-229.
ASSIGN_IF_CHANGED_AND_NONEMPTY(acc, that, field) ==
    IF ~FieldIsEmpty(field, that[field])
       /\ FieldDiffers(field, acc.computer[field], that[field])
    THEN [acc EXCEPT !.computer[field] = that[field], !.changed = TRUE]
    ELSE acc

\* The macro applications of update, lines 231-243, in order.
UpdateSteps ==
    << <<"name", FALSE>>, <<"macAddress", TRUE>>, <<"localAddress", TRUE>>,
       <<"remoteAddress", TRUE>>, <<"manualAddress", TRUE>>,
       <<"pairState", FALSE>>, <<"serverCodecModeSupport", FALSE>>,
       <<"currentGameId", FALSE>>, <<"activeAddress", FALSE>>,
       <<"state", FALSE>>, <<"gfeVersion", FALSE>>, <<"appVersion", FALSE>>,
       <<"appList", TRUE>> >>

RECURSIVE UpdateFrom(_, _, _)
UpdateFrom(acc, that, i) ==
    IF i > Len(UpdateSteps) THEN acc
    ELSE UpdateFrom(IF UpdateSteps[i][2]
                    THEN ASSIGN_IF_CHANGED_AND_NONEMPTY(acc, that, UpdateSteps[i][1])
                    ELSE ASSIGN_IF_CHANGED(acc, that, UpdateSteps[i][1]),
                    that, i + 1)

\* Mutant of update: the observed record replaces the existing one whole.
updateOverwriting(this, that) ==
    [computer |-> that, changed |-> this # that,
     asserted |-> QStrEq(this.uuid, that.uuid)]

\* NvComputer::update, lines 207-245: the merged record, whether anything
\* changed, and whether Q_ASSERT(this->uuid == that.uuid) held.
update(this, that) ==
    LET r == UpdateFrom([computer |-> this, changed |-> FALSE], that, 1)
    IN  [computer |-> r.computer, changed |-> r.changed,
         asserted |-> QStrEq(this.uuid, that.uuid)]

-----------------------------------------------------------------------------
(* NvComputer::uniqueAddresses and NvComputer::wake.                       *)

\* QVector::remove(i), with the code's indices (from 0).
RemoveAt(list, i) ==
    [k \in 1..(Len(list) - 1) |-> IF k <= i THEN list[k] ELSE list[k + 1]]

\* Mutant of PruneLater: after a removal the index is not stepped back, so
\* the entry that moved into place is skipped.
RECURSIVE PruneLaterSkipping(_, _, _)
PruneLaterSkipping(list, i, j) ==
    IF ~(j < Len(list)) THEN list
    ELSE IF QStrEq(list[i + 1], list[j + 1])
    THEN PruneLaterSkipping(RemoveAt(list, j), i, j + 1)
    ELSE PruneLaterSkipping(list, i, j + 1)

\* The inner loop, lines 192-198: a later occurrence of list[i] is removed
\* and the same index is looked at again.
RECURSIVE PruneLater(_, _, _)
PruneLater(list, i, j) ==
    IF ~(j < Len(list)) THEN list
    ELSE IF QStrEq(list[i + 1], list[j + 1])
    THEN PruneLater(RemoveAt(list, j), i, (j - 1) + 1)
    ELSE PruneLater(list, i, j + 1)

\* The outer loop, lines 186-199: an empty entry is removed and the same
\* index is looked at again.
RECURSIVE PruneFrom(_, _)
PruneFrom(list, i) ==
    IF ~(i < Len(list)) THEN list
    ELSE IF IsEmpty(list[i + 1]) \/ IsNull(list[i + 1])
    THEN PruneFrom(RemoveAt(list, i), (i - 1) + 1)
    ELSE PruneFrom(PruneLater(list, i, i + 1), i + 1)

\* NvComputer::uniqueAddresses, lines 175-205: the list, and whether
\* Q_ASSERT(uniqueAddressList.count() != 0) held.
uniqueAddresses(computer) ==
    LET uniqueAddressList ==
            PruneFrom(<<computer.activeAddress, computer.localAddress,
                        computer.remoteAddress, computer.manualAddress>>, 0)
    IN  [list |-> uniqueAddressList, asserted |-> Len(uniqueAddressList) # 0]

\* Q_ASSERT aborts the process in a debug build and is compiled out in a
\* release build.
Builds == {"debug", "release"}
Aborts(build, asserted) == build = "debug" /\ ~asserted

WOL_PORTS == <<7, 9, 47998, 47999, 48000>>
BROADCAST == "255.255.255.255"

\* What the network does with one target string: QHostInfo::fromName finds
\* no address, or one; then bind fails, or writeDatagram fails (-1), or it
\* sends the payload.
NetOutcomes == {"unresolved", "bindfail", "senderror", "sent"}

\* The payload of lines 135-139.
RECURSIVE RepeatBytes(_, _)
RepeatBytes(bytes, n) == IF n = 0 THEN <<>> ELSE bytes \o RepeatBytes(bytes, n - 1)

WolPayload(macAddress) ==
    <<255, 255, 255, 255, 255, 255>> \o RepeatBytes(macAddress.bytes, 16)

\* sock.writeDatagram: the number of bytes sent, or -1.
writeDatagram(wolPayload, outcome) ==
    IF outcome = "sent" THEN Len(wolPayload) ELSE -1

\* The datagrams lines 150-170 hand to the network, and the success flag.
Transmit(wolPayload, addressList, net) ==
    LET tried == {a \in {addressList[k] : k \in 1..Len(addressList)} :
                     net[a] \in {"senderror", "sent"}}
    IN  [sent |-> {<<a, WOL_PORTS[p]>> : a \in tried, p \in 1..Len(WOL_PORTS)},
         success |-> \E a \in tried : writeDatagram(wolPayload, net[a]) # 0]

\* NvComputer::wake, lines 117-173, under a network behaviour and a build:
\* the value returned, the datagrams handed to the network, whether the
\* process aborted on an assertion, and the payload built.
wake(computer, net, build) ==
    LET wolPayload == WolPayload(computer.macAddress)
        unique == uniqueAddresses(computer)
        addressList == Append(unique.list, BROADCAST)
        tx == Transmit(wolPayload, addressList, net)
        quiet == [ret |-> FALSE, sent |-> {}, aborted |-> FALSE, payload |-> <<>>]
    IN  IF computer.state = CS_ONLINE THEN [quiet EXCEPT !.ret = TRUE]
        ELSE IF computer.macAddress.null THEN quiet
        ELSE IF Aborts(build, Len(wolPayload) = 102) \/ Aborts(build, unique.asserted)
        THEN [quiet EXCEPT !.aborted = TRUE, !.payload = wolPayload]
        ELSE [ret |-> tx.success, sent |-> tx.sent, aborted |-> FALSE,
              payload |-> wolPayload]

-----------------------------------------------------------------------------
(* The manager's state.                                                    *)

\* Pointers: 0 is nullptr.
NULL == 0
ComputerPtrs == 1..MaxComputers
ThreadPtrs == 1..MaxThreads

\* The threads that call into the manager: the thread the manager lives in
\* (it also runs the event loop that delivers queued slot invocations and
\* discovery events) and one other thread.
UI == "ui"
BG == "bg"
Callers == {UI, BG}
NoHolder == "none"

\* The contents of a heap cell never handed out.
BlankComputer == NvComputerFromServerInfo(QNull, INFO_DEN_BARE)

\* Mutant of NewComputer: the context is ignored and the query address is
\* always stored as localAddress.
NewComputerAlwaysLocal(address, serverInfo, mdns) ==
    [NvComputerFromServerInfo(address, serverInfo) EXCEPT !.localAddress = address]

\* Mutant of NewComputer: the query address is stored in neither field.
NewComputerNoContext(address, serverInfo, mdns) ==
    NvComputerFromServerInfo(address, serverInfo)

\* addNewHost lines 399-407: the record built from the response, with the
\* query address stored as localAddress (discovery) or manualAddress.
NewComputer(address, serverInfo, mdns) ==
    IF mdns
    THEN [NvComputerFromServerInfo(address, serverInfo) EXCEPT !.localAddress = address]
    ELSE [NvComputerFromServerInfo(address, serverInfo) EXCEPT !.manualAddress = address]

\* Hosts an earlier run persisted: Den-PC added by hand with its app list
\* fetched, and the same host when the server reported no mac.
STORED_DEN ==
    serialize([NewComputer(ADDR_MANUAL, INFO_DEN, FALSE) EXCEPT !.appList = <<APP_GAME_A>>], <<>>)
STORED_DEN_BARE ==
    serialize(NewComputer(ADDR_MANUAL, INFO_DEN_BARE, FALSE), <<>>)

\* The persisted host arrays a run may start from.
InitialStores == {<<>>, <<STORED_DEN>>}

\* QMap as a function on its keys.
EmptyMap == [k \in {} |-> NULL]
MapPut(map, key, value) ==
    [k \in DOMAIN map \cup {key} |-> IF k = key THEN value ELSE map[k]]
MapRemove(map, key) == [k \in DOMAIN map \ {key} |-> map[k]]

\* QMap::keys(): the keys in ascending order.
MapKeys(map) == SelectSeq(UuidOrder, LAMBDA u : u \in DOMAIN map)

FreeLock == [w |-> NoHolder, r |-> {}]

NoFrame ==
    [op |-> "none", address |-> QNull, mdns |-> FALSE,
     serverInfo |-> INFO_DEN_BARE, newComputer |-> BlankComputer, computer |-> NULL, thread |-> NULL,
     changed |-> FALSE, ret |-> FALSE, emitted |-> 0, i |-> 0,
     pending |-> 0, out |-> <<>>]

NoPre ==
    [tracking |-> FALSE, valid |-> FALSE, quiet |-> FALSE,
     m_KnownHosts |-> EmptyMap, m_PollThreads |-> EmptyMap,
     computers |-> <<>>, settings |-> <<>>]

\* ComputerManager::ComputerManager, lines 247-262: one record per persisted
\* entry, keyed by its uuid; polling off, no browser.
Constructed(store) ==
    /\ settings = store
    /\ computers = [p \in ComputerPtrs |->
                      IF p <= Len(store)
                      THEN [st |-> "live", c |-> NvComputerFromSettings(store[p])]
                      ELSE [st |-> "free", c |-> BlankComputer]]
    /\ m_KnownHosts = [u \in {store[p].uuid : p \in 1..Len(store)} |->
                         CHOOSE p \in 1..Len(store) : store[p].uuid = u]
    /\ m_PollThreads = EmptyMap
    /\ m_Polling = FALSE
    /\ m_MdnsBrowser = FALSE
    /\ m_PendingResolution = <<>>
    /\ m_Lock = FreeLock
    /\ compLock = [p \in ComputerPtrs |-> FreeLock]
    /\ threads = [w \in ThreadPtrs |->
                    [st |-> "unused", computer |-> NULL,
                     interrupted |-> FALSE, selfDelete |-> FALSE]]
    /\ eventQueue = <<>>
    /\ frame = [t \in Callers |-> NoFrame]
    /\ lastEmit = NULL
    /\ used = [calls |-> 0, polls |-> 0, services |-> 0,
               computers |-> Len(store), threads |-> 0]

-----------------------------------------------------------------------------
(* Locks, allocation and the bookkeeping every step shares.                *)

\* QReadWriteLock::lockForWrite / lockForRead can be taken.
CanLockForWrite(lock) == lock.w = NoHolder /\ lock.r = {}
CanLockForRead(lock) == lock.w = NoHolder

\* new: the lowest cell never handed out.
NewComputerPtr == CHOOSE p \in ComputerPtrs :
    computers[p].st = "free" /\ \A q \in ComputerPtrs : computers[q].st = "free" => p <= q
NewThreadPtr == CHOOSE w \in ThreadPtrs :
    threads[w].st = "unused" /\ \A v \in ThreadPtrs : threads[v].st = "unused" => w <= v

Goto(t, label) == pc' = [pc EXCEPT ![t] = label]
SetFrame(t, f) == frame' = [frame EXCEPT ![t] = f]

\* The step emits no notification.
Silent == lastEmit' = NULL

\* The shared state an observed call starts from.
Snapshot ==
    [tracking |-> TRUE, valid |-> TRUE, quiet |-> TRUE,
     m_KnownHosts |-> m_KnownHosts, m_PollThreads |-> m_PollThreads,
     computers |-> computers, settings |-> settings]
CallBegins == pre' = IF pre.tracking THEN Snapshot ELSE pre
CallEnds == pre' = IF pre.tracking THEN [NoPre EXCEPT !.tracking = TRUE] ELSE pre
\* A step of another thread while an observed call runs.
Disturbs == pre' = IF pre.valid THEN [pre EXCEPT !.quiet = FALSE] ELSE pre

\* A call may begin: the thread is idle and the run's budget allows the
\* records and workers the call can create.
MayBegin(t, newComputers, newThreads) ==
    /\ pc[t] = "idle"
    /\ used.computers + newComputers <= MaxComputers
    /\ used.threads + newThreads <= MaxThreads

Spend(calls, newComputers, newThreads) ==
    used' = [used EXCEPT !.calls = @ + calls, !.computers = @ + newComputers,
                         !.threads = @ + newThreads]

-----------------------------------------------------------------------------
(* ComputerManager::startPollingComputer, lines 451-469.                   *)

\* The registry and the thread heap after startPollingComputer(computer).
StartPollingComputer(computer, pollThreads, heap) ==
    LET uuid == computers[computer].c.uuid
    IN  IF ~m_Polling THEN [m_PollThreads |-> pollThreads, threads |-> heap]
        ELSE IF uuid \in DOMAIN pollThreads
        THEN [m_PollThreads |-> pollThreads, threads |-> heap]
        ELSE LET w == CHOOSE v \in ThreadPtrs :
                     heap[v].st = "unused"
                     /\ \A o \in ThreadPtrs : heap[o].st = "unused" => v <= o
             IN  [m_PollThreads |-> MapPut(pollThreads, uuid, w),
                  threads |-> [heap EXCEPT ![w] =
                                  [st |-> "running", computer |-> computer,
                                   interrupted |-> FALSE, selfDelete |-> FALSE]]]

-----------------------------------------------------------------------------
(* ComputerManager::addNewHost, lines 388-440.                             *)

\* A caller enters addNewHost(address, mdns).
BeginAddHost(t) ==
    /\ MayBegin(t, 1, 1)
    /\ used.calls < MaxCalls
    /\ \E mdns \in BOOLEAN :
          SetFrame(t, [NoFrame EXCEPT !.op = "addNewHost", !.address = ADDR_MANUAL,
                                      !.mdns = mdns])
    /\ Goto(t, "an_query")
    /\ Spend(1, 1, 1)
    /\ CallBegins /\ Silent
    /\ UNCHANGED <<m_KnownHosts, m_PollThreads, m_Polling, m_MdnsBrowser,
                   m_PendingResolution, m_Lock, computers, compLock, threads,
                   settings, eventQueue, fx>>

\* Mutant of AddHostQueryFails: a failed query is taken for the host being
\* gone and the persisted hosts are dropped.
AddHostQueryFailsDropping(t) ==
    /\ pc[t] = "an_query"
    /\ SetFrame(t, [frame[t] EXCEPT !.ret = FALSE])
    /\ Goto(t, IF frame[t].op = "mdnsResolved" THEN "mr_remove" ELSE "ret")
    /\ settings' = <<>>
    /\ Silent
    /\ UNCHANGED <<m_KnownHosts, m_PollThreads, m_Polling, m_MdnsBrowser,
                   m_PendingResolution, m_Lock, computers, compLock, threads,
                   eventQueue, pre, used, fx>>

\* Lines 393-397: getServerInfo throws.
AddHostQueryFails(t) ==
    /\ pc[t] = "an_query"
    /\ SetFrame(t, [frame[t] EXCEPT !.ret = FALSE])
    /\ Goto(t, IF frame[t].op = "mdnsResolved" THEN "mr_remove" ELSE "ret")
    /\ Silent
    /\ UNCHANGED <<m_KnownHosts, m_PollThreads, m_Polling, m_MdnsBrowser,
                   m_PendingResolution, m_Lock, computers, compLock, threads,
                   settings, eventQueue, pre, used, fx>>

\* Lines 394-407: getServerInfo answers and newComputer is built.
AddHostQueryAnswers(t) ==
    /\ pc[t] = "an_query"
    /\ \E serverInfo \in ServerInfos :
          SetFrame(t, [frame[t] EXCEPT !.serverInfo = serverInfo, !.newComputer =
                          NewComputer(frame[t].address, serverInfo, frame[t].mdns)])
    /\ Goto(t, "an_lock")
    /\ Silent
    /\ UNCHANGED <<m_KnownHosts, m_PollThreads, m_Polling, m_MdnsBrowser,
                   m_PendingResolution, m_Lock, computers, compLock, threads,
                   settings, eventQueue, pre, used, fx>>

\* Lines 410-412: the write lock is taken and the record looked up;
\* QMap::operator[] inserts a null entry for a key it does not hold.
AddHostLookup(t) ==
    /\ pc[t] = "an_lock"
    /\ CanLockForWrite(m_Lock)
    /\ m_Lock' = [m_Lock EXCEPT !.w = t]
    /\ LET uuid == frame[t].newComputer.uuid
           existingComputer == IF uuid \in DOMAIN m_KnownHosts
                               THEN m_KnownHosts[uuid] ELSE NULL
       IN  /\ m_KnownHosts' = IF uuid \in DOMAIN m_KnownHosts THEN m_KnownHosts
                              ELSE MapPut(m_KnownHosts, uuid, NULL)
           /\ SetFrame(t, [frame[t] EXCEPT !.computer = existingComputer])
           /\ Goto(t, IF existingComputer # NULL THEN "an_update_lock" ELSE "an_insert")
    /\ Silent
    /\ UNCHANGED <<m_PollThreads, m_Polling, m_MdnsBrowser, m_PendingResolution,
                   computers, compLock, threads, settings, eventQueue, pre,
                   used, fx>>

\* Line 212, inside update: the existing record's lock is taken for write.
AddHostUpdateLock(t) ==
    /\ pc[t] = "an_update_lock"
    /\ CanLockForWrite(compLock[frame[t].computer])
    /\ compLock' = [compLock EXCEPT ![frame[t].computer].w = t]
    /\ Goto(t, "an_update")
    /\ Silent
    /\ UNCHANGED <<m_KnownHosts, m_PollThreads, m_Polling, m_MdnsBrowser,
                   m_PendingResolution, m_Lock, computers, threads, settings,
                   eventQueue, frame, pre, used, fx>>

\* Mutant of AddHostUpdate: update returns with the record's lock held.
AddHostUpdateKeepingLock(t) ==
    /\ pc[t] = "an_update"
    /\ LET existingComputer == frame[t].computer
           r == update(computers[existingComputer].c, frame[t].newComputer)
       IN  /\ computers' = [computers EXCEPT ![existingComputer].c = r.computer]
           /\ SetFrame(t, [frame[t] EXCEPT !.changed = r.changed,
                                           !.newComputer = BlankComputer])
    /\ Goto(t, "an_unlock_merged")
    /\ Silent
    /\ UNCHANGED <<m_KnownHosts, m_PollThreads, m_Polling, m_MdnsBrowser,
                   m_PendingResolution, m_Lock, compLock, threads, settings,
                   eventQueue, pre, used, fx>>

\* Lines 414-415: the merge; the record's lock is released on return and
\* newComputer is deleted.
AddHostUpdate(t) ==
    /\ pc[t] = "an_update"
    /\ LET existingComputer == frame[t].computer
           r == update(computers[existingComputer].c, frame[t].newComputer)
       IN  /\ computers' = [computers EXCEPT ![existingComputer].c = r.computer]
           /\ SetFrame(t, [frame[t] EXCEPT !.changed = r.changed,
                                           !.newComputer = BlankComputer])
    /\ compLock' = [compLock EXCEPT ![frame[t].computer].w = NoHolder]
    /\ Goto(t, "an_unlock_merged")
    /\ Silent
    /\ UNCHANGED <<m_KnownHosts, m_PollThreads, m_Polling, m_MdnsBrowser,
                   m_PendingResolution, m_Lock, threads, settings, eventQueue,
                   pre, used, fx>>

\* Mutant of AddHostUnlockMerged: the change is notified with the manager
\* lock still held.
AddHostNotifyLocked(t) ==
    /\ pc[t] = "an_unlock_merged"
    /\ Goto(t, IF frame[t].changed THEN "hcs_emit" ELSE "an_return")
    /\ Silent
    /\ UNCHANGED <<m_KnownHosts, m_PollThreads, m_Polling, m_MdnsBrowser,
                   m_PendingResolution, m_Lock, computers, compLock, threads,
                   settings, eventQueue, frame, pre, used, fx>>

\* Lines 418-423: the manager lock is dropped; a change is then notified.
AddHostUnlockMerged(t) ==
    /\ pc[t] = "an_unlock_merged"
    /\ m_Lock' = [m_Lock EXCEPT !.w = NoHolder]
    /\ Goto(t, IF frame[t].changed THEN "hcs_emit" ELSE "an_return")
    /\ Silent
    /\ UNCHANGED <<m_KnownHosts, m_PollThreads, m_Polling, m_MdnsBrowser,
                   m_PendingResolution, computers, compLock, threads, settings,
                   eventQueue, frame, pre, used, fx>>

\* Line 427: newComputer is stored in the table.
AddHostInsert(t) ==
    /\ pc[t] = "an_insert"
    /\ computers' = [computers EXCEPT ![NewComputerPtr] =
                        [st |-> "live", c |-> frame[t].newComputer]]
    /\ m_KnownHosts' = MapPut(m_KnownHosts, frame[t].newComputer.uuid, NewComputerPtr)
    /\ SetFrame(t, [frame[t] EXCEPT !.computer = NewComputerPtr,
                                    !.newComputer = BlankComputer])
    /\ Goto(t, "an_start_polling")
    /\ Silent
    /\ UNCHANGED <<m_PollThreads, m_Polling, m_MdnsBrowser, m_PendingResolution,
                   m_Lock, compLock, threads, settings, eventQueue, pre, used, fx>>

\* Line 430: startPollingComputer(newComputer).
AddHostStartPolling(t) ==
    /\ pc[t] = "an_start_polling"
    /\ LET r == StartPollingComputer(frame[t].computer, m_PollThreads, threads)
       IN  m_PollThreads' = r.m_PollThreads /\ threads' = r.threads
    /\ Goto(t, "an_unlock_new")
    /\ Silent
    /\ UNCHANGED <<m_KnownHosts, m_Polling, m_MdnsBrowser, m_PendingResolution,
                   m_Lock, computers, compLock, settings, eventQueue, frame,
                   pre, used, fx>>

\* Lines 433-436: the manager lock is dropped; the new host is then notified.
AddHostUnlockNew(t) ==
    /\ pc[t] = "an_unlock_new"
    /\ m_Lock' = [m_Lock EXCEPT !.w = NoHolder]
    /\ Goto(t, "hcs_emit")
    /\ Silent
    /\ UNCHANGED <<m_KnownHosts, m_PollThreads, m_Polling, m_MdnsBrowser,
                   m_PendingResolution, computers, compLock, threads, settings,
                   eventQueue, frame, pre, used, fx>>

\* Line 439: return true (into handleMdnsServiceResolved when it called).
AddHostReturn(t) ==
    /\ pc[t] = "an_return"
    /\ SetFrame(t, [frame[t] EXCEPT !.ret = TRUE])
    /\ Goto(t, IF frame[t].op = "mdnsResolved" THEN "mr_remove" ELSE "ret")
    /\ Silent
    /\ UNCHANGED <<m_KnownHosts, m_PollThreads, m_Polling, m_MdnsBrowser,
                   m_PendingResolution, m_Lock, computers, compLock, threads,
                   settings, eventQueue, pre, used, fx>>

-----------------------------------------------------------------------------
(* ComputerManager::handleComputerStateChanged and saveHosts.              *)

\* Line 445: emit computerStateChanged(computer).
EmitStateChanged(t) ==
    /\ pc[t] = "hcs_emit"
    /\ lastEmit' = frame[t].computer
    /\ SetFrame(t, [frame[t] EXCEPT !.emitted = @ + 1])
    /\ Goto(t, "sv_lock")
    /\ UNCHANGED <<m_KnownHosts, m_PollThreads, m_Polling, m_MdnsBrowser,
                   m_PendingResolution, m_Lock, computers, compLock, threads,
                   settings, eventQueue, pre, used, fx>>

\* Lines 266-270: the read lock is taken and the hosts array removed from
\* this QSettings object.
SaveHostsLock(t) ==
    /\ pc[t] = "sv_lock"
    /\ CanLockForRead(m_Lock)
    /\ m_Lock' = [m_Lock EXCEPT !.r = @ \cup {t}]
    /\ SetFrame(t, [frame[t] EXCEPT !.out = <<>>, !.i = 0])
    /\ Goto(t, "sv_loop")
    /\ Silent
    /\ UNCHANGED <<m_KnownHosts, m_PollThreads, m_Polling, m_MdnsBrowser,
                   m_PendingResolution, computers, compLock, threads, settings,
                   eventQueue, pre, used, fx>>

\* Lines 271-273 and 57: the next record's lock is taken for read.
SaveHostsLockComputer(t) ==
    /\ pc[t] = "sv_loop"
    /\ frame[t].i < Len(MapKeys(m_KnownHosts))
    /\ LET computer == m_KnownHosts[MapKeys(m_KnownHosts)[frame[t].i + 1]]
       IN  /\ CanLockForRead(compLock[computer])
           /\ compLock' = [compLock EXCEPT ![computer].r = @ \cup {t}]
    /\ Goto(t, "sv_serialize")
    /\ Silent
    /\ UNCHANGED <<m_KnownHosts, m_PollThreads, m_Polling, m_MdnsBrowser,
                   m_PendingResolution, m_Lock, computers, threads, settings,
                   eventQueue, frame, pre, used, fx>>

\* Lines 59-80: the record is written to entry i, whose app array is gone
\* with the removed hosts array; the record's lock is released.
SaveHostsSerialize(t) ==
    /\ pc[t] = "sv_serialize"
    /\ LET computer == m_KnownHosts[MapKeys(m_KnownHosts)[frame[t].i + 1]]
       IN  /\ SetFrame(t, [frame[t] EXCEPT
                              !.out = Append(@, serialize(computers[computer].c, <<>>)),
                              !.i = @ + 1])
           /\ compLock' = [compLock EXCEPT ![computer].r = @ \ {t}]
    /\ Goto(t, "sv_loop")
    /\ Silent
    /\ UNCHANGED <<m_KnownHosts, m_PollThreads, m_Polling, m_MdnsBrowser,
                   m_PendingResolution, m_Lock, computers, threads, settings,
                   eventQueue, pre, used, fx>>

\* Lines 275-276: the array is closed, the read lock released and the
\* QSettings object destroyed, which stores what it wrote.
SaveHostsEnd(t) ==
    /\ pc[t] = "sv_loop"
    /\ ~(frame[t].i < Len(MapKeys(m_KnownHosts)))
    /\ m_Lock' = [m_Lock EXCEPT !.r = @ \ {t}]
    /\ settings' = frame[t].out
    /\ IF frame[t].op = "notify"
       THEN Goto(t, "idle") /\ SetFrame(t, NoFrame)
       ELSE Goto(t, "an_return") /\ SetFrame(t, [frame[t] EXCEPT !.out = <<>>, !.i = 0])
    /\ Silent
    /\ UNCHANGED <<m_KnownHosts, m_PollThreads, m_Polling, m_MdnsBrowser,
                   m_PendingResolution, computers, compLock, threads,
                   eventQueue, pre, used, fx>>

\* The caller has the call's result; it goes back to its own work.
Return(t) ==
    /\ pc[t] = "ret"
    /\ Goto(t, "idle")
    /\ SetFrame(t, NoFrame)
    /\ CallEnds /\ Silent
    /\ UNCHANGED <<m_KnownHosts, m_PollThreads, m_Polling, m_MdnsBrowser,
                   m_PendingResolution, m_Lock, computers, compLock, threads,
                   settings, eventQueue, used, fx>>

-----------------------------------------------------------------------------
(* ComputerManager::deleteHost, lines 326-347.                             *)

\* The manager's thread enters deleteHost(computer) with a record of the
\* table.
BeginDeleteHost(t) ==
    /\ t = UI
    /\ MayBegin(t, 0, 0)
    /\ used.calls < MaxCalls
    /\ \E uuid \in DOMAIN m_KnownHosts :
          /\ m_KnownHosts[uuid] # NULL
          /\ SetFrame(t, [NoFrame EXCEPT !.op = "deleteHost",
                                         !.computer = m_KnownHosts[uuid]])
    /\ Goto(t, "dh_lock")
    /\ Spend(1, 0, 0)
    /\ CallBegins /\ Silent
    /\ UNCHANGED <<m_KnownHosts, m_PollThreads, m_Polling, m_MdnsBrowser,
                   m_PendingResolution, m_Lock, computers, compLock, threads,
                   settings, eventQueue, fx>>

\* Lines 328-331: the write lock is taken and the worker looked up;
\* QMap::operator[] inserts a null entry for a key it does not hold.
DeleteHostLookup(t) ==
    /\ pc[t] = "dh_lock"
    /\ CanLockForWrite(m_Lock)
    /\ m_Lock' = [m_Lock EXCEPT !.w = t]
    /\ LET uuid == computers[frame[t].computer].c.uuid
           pollingThread == IF uuid \in DOMAIN m_PollThreads
                            THEN m_PollThreads[uuid] ELSE NULL
       IN  /\ m_PollThreads' = IF uuid \in DOMAIN m_PollThreads THEN m_PollThreads
                               ELSE MapPut(m_PollThreads, uuid, NULL)
           /\ SetFrame(t, [frame[t] EXCEPT !.thread = pollingThread])
           /\ Goto(t, IF pollingThread # NULL THEN "dh_interrupt" ELSE "dh_remove_thread")
    /\ Silent
    /\ UNCHANGED <<m_KnownHosts, m_Polling, m_MdnsBrowser, m_PendingResolution,
                   computers, compLock, threads, settings, eventQueue, pre,
                   used, fx>>

\* Mutant of DeleteHostInterrupt: the worker is not asked to stop.
DeleteHostNoInterrupt(t) ==
    /\ pc[t] = "dh_interrupt"
    /\ Goto(t, "dh_wait")
    /\ Silent
    /\ UNCHANGED <<m_KnownHosts, m_PollThreads, m_Polling, m_MdnsBrowser,
                   m_PendingResolution, m_Lock, computers, compLock, threads,
                   settings, eventQueue, frame, pre, used, fx>>

\* Line 332: pollingThread->requestInterruption().
DeleteHostInterrupt(t) ==
    /\ pc[t] = "dh_interrupt"
    /\ threads' = [threads EXCEPT ![frame[t].thread].interrupted = TRUE]
    /\ Goto(t, "dh_wait")
    /\ Silent
    /\ UNCHANGED <<m_KnownHosts, m_PollThreads, m_Polling, m_MdnsBrowser,
                   m_PendingResolution, m_Lock, computers, compLock, settings,
                   eventQueue, frame, pre, used, fx>>

\* Mutant of DeleteHostWait: the wait is missing.
DeleteHostNoWait(t) ==
    /\ pc[t] = "dh_wait"
    /\ Goto(t, "dh_delete_thread")
    /\ Silent
    /\ UNCHANGED <<m_KnownHosts, m_PollThreads, m_Polling, m_MdnsBrowser,
                   m_PendingResolution, m_Lock, computers, compLock, threads,
                   settings, eventQueue, frame, pre, used, fx>>

\* Line 336: pollingThread->wait() returns once the worker has finished.
DeleteHostWait(t) ==
    /\ pc[t] = "dh_wait"
    /\ threads[frame[t].thread].st = "finished"
    /\ Goto(t, "dh_delete_thread")
    /\ Silent
    /\ UNCHANGED <<m_KnownHosts, m_PollThreads, m_Polling, m_MdnsBrowser,
                   m_PendingResolution, m_Lock, computers, compLock, threads,
                   settings, eventQueue, frame, pre, used, fx>>

\* Lines 339-340: delete pollingThread.
DeleteHostDeleteThread(t) ==
    /\ pc[t] = "dh_delete_thread"
    /\ threads' = [threads EXCEPT ![frame[t].thread].st = "deleted"]
    /\ Goto(t, "dh_remove_thread")
    /\ Silent
    /\ UNCHANGED <<m_KnownHosts, m_PollThreads, m_Polling, m_MdnsBrowser,
                   m_PendingResolution, m_Lock, computers, compLock, settings,
                   eventQueue, frame, pre, used, fx>>

\* Mutant of DeleteHostRemoveThread: the registry entry is left behind.
DeleteHostKeepThread(t) ==
    /\ pc[t] = "dh_remove_thread"
    /\ Goto(t, "dh_remove_host")
    /\ Silent
    /\ UNCHANGED <<m_KnownHosts, m_PollThreads, m_Polling, m_MdnsBrowser,
                   m_PendingResolution, m_Lock, computers, compLock, threads,
                   settings, eventQueue, frame, pre, used, fx>>

\* Line 343: m_PollThreads.remove(computer->uuid).
DeleteHostRemoveThread(t) ==
    /\ pc[t] = "dh_remove_thread"
    /\ m_PollThreads' = MapRemove(m_PollThreads, computers[frame[t].computer].c.uuid)
    /\ Goto(t, "dh_remove_host")
    /\ Silent
    /\ UNCHANGED <<m_KnownHosts, m_Polling, m_MdnsBrowser, m_PendingResolution,
                   m_Lock, computers, compLock, threads, settings, eventQueue,
                   frame, pre, used, fx>>

\* Line 344: m_KnownHosts.remove(computer->uuid).
DeleteHostRemoveHost(t) ==
    /\ pc[t] = "dh_remove_host"
    /\ m_KnownHosts' = MapRemove(m_KnownHosts, computers[frame[t].computer].c.uuid)
    /\ Goto(t, "dh_delete")
    /\ Silent
    /\ UNCHANGED <<m_PollThreads, m_Polling, m_MdnsBrowser, m_PendingResolution,
                   m_Lock, computers, compLock, threads, settings, eventQueue,
                   frame, pre, used, fx>>

\* Line 346: delete computer.
DeleteHostDelete(t) ==
    /\ pc[t] = "dh_delete"
    /\ computers' = [computers EXCEPT ![frame[t].computer].st = "deleted"]
    /\ Goto(t, "dh_unlock")
    /\ Silent
    /\ UNCHANGED <<m_KnownHosts, m_PollThreads, m_Polling, m_MdnsBrowser,
                   m_PendingResolution, m_Lock, compLock, threads, settings,
                   eventQueue, frame, pre, used, fx>>

\* Line 347: the write lock is released as deleteHost returns.
DeleteHostReturn(t) ==
    /\ pc[t] = "dh_unlock"
    /\ m_Lock' = [m_Lock EXCEPT !.w = NoHolder]
    /\ Goto(t, "ret")
    /\ Silent
    /\ UNCHANGED <<m_KnownHosts, m_PollThreads, m_Polling, m_MdnsBrowser,
                   m_PendingResolution, computers, compLock, threads, settings,
                   eventQueue, frame, pre, used, fx>>

-----------------------------------------------------------------------------
(* ComputerManager::startPolling, lines 278-306.                           *)

\* The manager's thread enters startPolling().
BeginStartPolling(t) ==
    /\ t = UI
    /\ MayBegin(t, 0, Cardinality(DOMAIN m_KnownHosts))
    /\ used.calls < MaxCalls
    /\ SetFrame(t, [NoFrame EXCEPT !.op = "startPolling"])
    /\ Goto(t, "sp_lock")
    /\ Spend(1, 0, Cardinality(DOMAIN m_KnownHosts))
    /\ CallBegins /\ Silent
    /\ UNCHANGED <<m_KnownHosts, m_PollThreads, m_Polling, m_MdnsBrowser,
                   m_PendingResolution, m_Lock, computers, compLock, threads,
                   settings, eventQueue, fx>>

\* Lines 280-298: the write lock is taken; when polling is already on the
\* call returns, otherwise the flag is set and the browser created.
StartPollingLock(t) ==
    /\ pc[t] = "sp_lock"
    /\ CanLockForWrite(m_Lock)
    /\ m_Lock' = [m_Lock EXCEPT !.w = t]
    /\ IF m_Polling
       THEN /\ Goto(t, "sp_unlock")
            /\ UNCHANGED <<m_Polling, m_MdnsBrowser, frame>>
       ELSE /\ m_Polling' = TRUE
            /\ m_MdnsBrowser' = TRUE
            /\ SetFrame(t, [frame[t] EXCEPT !.i = 0])
            /\ Goto(t, "sp_loop")
    /\ Silent
    /\ UNCHANGED <<m_KnownHosts, m_PollThreads, m_PendingResolution, computers,
                   compLock, threads, settings, eventQueue, pre, used, fx>>

\* Lines 301-305: startPollingComputer for the next known host.
StartPollingNextHost(t) ==
    /\ pc[t] = "sp_loop"
    /\ frame[t].i < Len(MapKeys(m_KnownHosts))
    /\ LET computer == m_KnownHosts[MapKeys(m_KnownHosts)[frame[t].i + 1]]
           r == StartPollingComputer(computer, m_PollThreads, threads)
       IN  m_PollThreads' = r.m_PollThreads /\ threads' = r.threads
    /\ SetFrame(t, [frame[t] EXCEPT !.i = @ + 1])
    /\ Silent
    /\ UNCHANGED <<m_KnownHosts, m_Polling, m_MdnsBrowser, m_PendingResolution,
                   m_Lock, computers, compLock, settings, eventQueue, pc, pre,
                   used, fx>>

\* Line 302: the iteration is over.
StartPollingDone(t) ==
    /\ pc[t] = "sp_loop"
    /\ ~(frame[t].i < Len(MapKeys(m_KnownHosts)))
    /\ Goto(t, "sp_unlock")
    /\ Silent
    /\ UNCHANGED <<m_KnownHosts, m_PollThreads, m_Polling, m_MdnsBrowser,
                   m_PendingResolution, m_Lock, computers, compLock, threads,
                   settings, eventQueue, frame, pre, used, fx>>

\* Lines 283 and 306: the write lock is released as startPolling returns.
StartPollingReturn(t) ==
    /\ pc[t] = "sp_unlock"
    /\ m_Lock' = [m_Lock EXCEPT !.w = NoHolder]
    /\ Goto(t, "ret")
    /\ Silent
    /\ UNCHANGED <<m_KnownHosts, m_PollThreads, m_Polling, m_MdnsBrowser,
                   m_PendingResolution, computers, compLock, threads, settings,
                   eventQueue, frame, pre, used, fx>>

-----------------------------------------------------------------------------
(* ComputerManager::stopPollingAsync, lines 349-386.                       *)

\* The manager's thread enters stopPollingAsync().
BeginStopPolling(t) ==
    /\ t = UI
    /\ MayBegin(t, 0, 0)
    /\ used.calls < MaxCalls
    /\ SetFrame(t, [NoFrame EXCEPT !.op = "stopPollingAsync"])
    /\ Goto(t, "st_lock")
    /\ Spend(1, 0, 0)
    /\ CallBegins /\ Silent
    /\ UNCHANGED <<m_KnownHosts, m_PollThreads, m_Polling, m_MdnsBrowser,
                   m_PendingResolution, m_Lock, computers, compLock, threads,
                   settings, eventQueue, fx>>

\* Lines 351-357: the write lock is taken; when polling is off the call
\* returns, otherwise the flag is cleared.
StopPollingLock(t) ==
    /\ pc[t] = "st_lock"
    /\ CanLockForWrite(m_Lock)
    /\ m_Lock' = [m_Lock EXCEPT !.w = t]
    /\ m_Polling' = FALSE
    /\ Goto(t, IF m_Polling THEN "st_pending" ELSE "st_unlock")
    /\ Silent
    /\ UNCHANGED <<m_KnownHosts, m_PollThreads, m_MdnsBrowser,
                   m_PendingResolution, computers, compLock, threads, settings,
                   eventQueue, frame, pre, used, fx>>

\* Lines 360-368: the pending resolutions are discarded and the browser
\* deleted.
StopPollingDiscardPending(t) ==
    /\ pc[t] = "st_pending"
    /\ m_PendingResolution' = <<>>
    /\ m_MdnsBrowser' = FALSE
    /\ Goto(t, "st_threads")
    /\ Silent
    /\ UNCHANGED <<m_KnownHosts, m_PollThreads, m_Polling, m_Lock, computers,
                   compLock, threads, settings, eventQueue, frame, pre, used, fx>>

\* Lines 371-385: the next worker is set to delete itself when finished, is
\* asked to stop and is removed from the registry; nothing waits for it.
StopPollingInterruptNext(t) ==
    /\ pc[t] = "st_threads"
    /\ DOMAIN m_PollThreads # {}
    /\ LET uuid == MapKeys(m_PollThreads)[1]
           thread == m_PollThreads[uuid]
       IN  /\ threads' = [threads EXCEPT ![thread].selfDelete = TRUE,
                                         ![thread].interrupted = TRUE]
           /\ m_PollThreads' = MapRemove(m_PollThreads, uuid)
    /\ Silent
    /\ UNCHANGED <<m_KnownHosts, m_Polling, m_MdnsBrowser, m_PendingResolution,
                   m_Lock, computers, compLock, settings, eventQueue, pc, frame,
                   pre, used, fx>>

\* Mutant of StopPollingDone: the iteration ends without having visited
\* every worker.
StopPollingDoneEarly(t) ==
    /\ pc[t] = "st_threads"
    /\ Goto(t, "st_unlock")
    /\ Silent
    /\ UNCHANGED <<m_KnownHosts, m_PollThreads, m_Polling, m_MdnsBrowser,
                   m_PendingResolution, m_Lock, computers, compLock, threads,
                   settings, eventQueue, frame, pre, used, fx>>

\* Line 372: no worker is left to visit.
StopPollingDone(t) ==
    /\ pc[t] = "st_threads"
    /\ DOMAIN m_PollThreads = {}
    /\ Goto(t, "st_unlock")
    /\ Silent
    /\ UNCHANGED <<m_KnownHosts, m_PollThreads, m_Polling, m_MdnsBrowser,
                   m_PendingResolution, m_Lock, computers, compLock, threads,
                   settings, eventQueue, frame, pre, used, fx>>

\* Lines 354 and 386: the write lock is released as stopPollingAsync
\* returns.
StopPollingReturn(t) ==
    /\ pc[t] = "st_unlock"
    /\ m_Lock' = [m_Lock EXCEPT !.w = NoHolder]
    /\ Goto(t, "ret")
    /\ Silent
    /\ UNCHANGED <<m_KnownHosts, m_PollThreads, m_Polling, m_MdnsBrowser,
                   m_PendingResolution, computers, compLock, threads, settings,
                   eventQueue, frame, pre, used, fx>>

-----------------------------------------------------------------------------
(* The event loop of the manager's thread: discovery events and the queued *)
(* computerStateChanged -> handleComputerStateChanged invocations.         *)

\* Lines 290-298: the browser reports a service and a pending resolution is
\* appended.
ServiceAdded ==
    /\ pc[UI] = "idle"
    /\ m_MdnsBrowser
    /\ used.services < MaxServices
    /\ m_PendingResolution' =
          Append(m_PendingResolution, [id |-> used.services + 1, address |-> ADDR_LAN])
    /\ used' = [used EXCEPT !.services = @ + 1]
    /\ Silent
    /\ UNCHANGED <<m_KnownHosts, m_PollThreads, m_Polling, m_MdnsBrowser, m_Lock,
                   computers, compLock, threads, settings, eventQueue, pc,
                   frame, pre, fx>>

\* Lines 308-313: a pending resolution resolves and
\* handleMdnsServiceResolved calls addNewHost(address, true).
ServiceResolved ==
    /\ MayBegin(UI, 1, 1)
    /\ \E k \in 1..Len(m_PendingResolution) :
          SetFrame(UI, [NoFrame EXCEPT !.op = "mdnsResolved",
                                       !.address = m_PendingResolution[k].address,
                                       !.mdns = TRUE,
                                       !.pending = m_PendingResolution[k].id])
    /\ Goto(UI, "an_query")
    /\ Spend(0, 1, 1)
    /\ Silent
    /\ UNCHANGED <<m_KnownHosts, m_PollThreads, m_Polling, m_MdnsBrowser,
                   m_PendingResolution, m_Lock, computers, compLock, threads,
                   settings, eventQueue, pre, fx>>

\* Lines 315-316: m_PendingResolution.removeOne(computer).
ServiceResolvedRemove ==
    /\ pc[UI] = "mr_remove"
    /\ m_PendingResolution' =
          SelectSeq(m_PendingResolution, LAMBDA e : e.id # frame[UI].pending)
    /\ Goto(UI, "idle")
    /\ SetFrame(UI, NoFrame)
    /\ Silent
    /\ UNCHANGED <<m_KnownHosts, m_PollThreads, m_Polling, m_MdnsBrowser, m_Lock,
                   computers, compLock, threads, settings, eventQueue, pre,
                   used, fx>>

\* Lines 465-466: a queued computerStateChanged(computer) is delivered and
\* handleComputerStateChanged(computer) runs.
DeliverStateChanged ==
    /\ pc[UI] = "idle"
    /\ eventQueue # <<>>
    /\ SetFrame(UI, [NoFrame EXCEPT !.op = "notify", !.computer = Head(eventQueue)])
    /\ eventQueue' = Tail(eventQueue)
    /\ Goto(UI, "hcs_emit")
    /\ Silent
    /\ UNCHANGED <<m_KnownHosts, m_PollThreads, m_Polling, m_MdnsBrowser,
                   m_PendingResolution, m_Lock, computers, compLock, threads,
                   settings, pre, used, fx>>

-----------------------------------------------------------------------------
(* PcMonitorThread: the polling worker, through its lifecycle contract.    *)

\* What one poll can observe of the host: no answer, a status payload of
\* the same host at its first address, or its app list.
Observed(c) ==
    {[c EXCEPT !.state = CS_OFFLINE]}
        \cup {update(c, NvComputerFromServerInfo(uniqueAddresses(c).list[1], si)).computer :
                 si \in {i \in ServerInfos : QStrEq(i.uniqueid, c.uuid)}}
        \cup {[c EXCEPT !.appList = <<APP_GAME_A>>]}

\* One poll of a running worker: the record is brought up to date under its
\* write lock and, when it changed, computerStateChanged(computer) is
\* emitted, which posts the slot invocation to the manager's thread. A
\* record already deleted is not the worker's to change any more.
WorkerPoll(w) ==
    /\ threads[w].st = "running"
    /\ used.polls < MaxPolls
    /\ LET computer == threads[w].computer
       IN  /\ CanLockForWrite(compLock[computer])
           /\ \/ /\ computers[computer].st = "live"
                 /\ uniqueAddresses(computers[computer].c).asserted
                 /\ \E c \in Observed(computers[computer].c) :
                       /\ c # computers[computer].c
                       /\ computers' = [computers EXCEPT ![computer].c = c]
              \/ /\ computers[computer].st = "deleted"
                 /\ UNCHANGED computers
           /\ Len(eventQueue) < MaxQueue
           /\ eventQueue' = Append(eventQueue, computer)
    /\ used' = [used EXCEPT !.polls = @ + 1]
    /\ Disturbs /\ Silent
    /\ UNCHANGED <<m_KnownHosts, m_PollThreads, m_Polling, m_MdnsBrowser,
                   m_PendingResolution, m_Lock, compLock, threads, settings,
                   pc, frame, fx>>

\* The worker sees the interruption request and its run() returns; a worker
\* set to delete itself is deleted.
WorkerExit(w) ==
    /\ threads[w].st = "running"
    /\ threads[w].interrupted
    /\ threads' = [threads EXCEPT ![w].st =
                      IF threads[w].selfDelete THEN "deleted" ELSE "finished"]
    /\ Disturbs /\ Silent
    /\ UNCHANGED <<m_KnownHosts, m_PollThreads, m_Polling, m_MdnsBrowser,
                   m_PendingResolution, m_Lock, computers, compLock, settings,
                   eventQueue, pc, frame, used, fx>>

-----------------------------------------------------------------------------
(* The manager's specifications.                                           *)

NoFx == [op |-> "none", stage |-> 0]

\* After construction: both calling threads idle.
Init ==
    /\ \E store \in InitialStores : Constructed(store)
    /\ pc = [t \in Callers |-> "idle"]
    /\ pre = NoPre
    /\ fx = NoFx

Next ==
    \/ \E t \in Callers : BeginAddHost(t)
    \/ \E t \in Callers : AddHostQueryFails(t)
    \/ \E t \in Callers : AddHostQueryAnswers(t)
    \/ \E t \in Callers : AddHostLookup(t)
    \/ \E t \in Callers : AddHostUpdateLock(t)
    \/ \E t \in Callers : AddHostUpdate(t)
    \/ \E t \in Callers : AddHostUnlockMerged(t)
    \/ \E t \in Callers : AddHostInsert(t)
    \/ \E t \in Callers : AddHostStartPolling(t)
    \/ \E t \in Callers : AddHostUnlockNew(t)
    \/ \E t \in Callers : AddHostReturn(t)
    \/ \E t \in Callers : EmitStateChanged(t)
    \/ \E t \in Callers : SaveHostsLock(t)
    \/ \E t \in Callers : SaveHostsLockComputer(t)
    \/ \E t \in Callers : SaveHostsSerialize(t)
    \/ \E t \in Callers : SaveHostsEnd(t)
    \/ \E t \in Callers : Return(t)
    \/ \E t \in Callers : BeginDeleteHost(t)
    \/ \E t \in Callers : DeleteHostLookup(t)
    \/ \E t \in Callers : DeleteHostInterrupt(t)
    \/ \E t \in Callers : DeleteHostWait(t)
    \/ \E t \in Callers : DeleteHostDeleteThread(t)
    \/ \E t \in Callers : DeleteHostRemoveThread(t)
    \/ \E t \in Callers : DeleteHostRemoveHost(t)
    \/ \E t \in Callers : DeleteHostDelete(t)
    \/ \E t \in Callers : DeleteHostReturn(t)
    \/ \E t \in Callers : BeginStartPolling(t)
    \/ \E t \in Callers : StartPollingLock(t)
    \/ \E t \in Callers : StartPollingNextHost(t)
    \/ \E t \in Callers : StartPollingDone(t)
    \/ \E t \in Callers : StartPollingReturn(t)
    \/ \E t \in Callers : BeginStopPolling(t)
    \/ \E t \in Callers : StopPollingLock(t)
    \/ \E t \in Callers : StopPollingDiscardPending(t)
    \/ \E t \in Callers : StopPollingInterruptNext(t)
    \/ \E t \in Callers : StopPollingDone(t)
    \/ \E t \in Callers : StopPollingReturn(t)
    \/ ServiceAdded
    \/ ServiceResolved
    \/ ServiceResolvedRemove
    \/ DeliverStateChanged
    \/ \E w \in ThreadPtrs : WorkerPoll(w)
    \/ \E w \in ThreadPtrs : WorkerExit(w)

Spec == Init /\ [][Next]_vars

\* The steps a calling thread takes inside a call it has begun.
CallSteps(t) ==
    \/ AddHostQueryFails(t) \/ AddHostQueryAnswers(t) \/ AddHostLookup(t)
    \/ AddHostUpdateLock(t) \/ AddHostUpdate(t) \/ AddHostUnlockMerged(t)
    \/ AddHostInsert(t) \/ AddHostStartPolling(t) \/ AddHostUnlockNew(t)
    \/ AddHostReturn(t) \/ EmitStateChanged(t) \/ SaveHostsLock(t)
    \/ SaveHostsLockComputer(t) \/ SaveHostsSerialize(t) \/ SaveHostsEnd(t)
    \/ Return(t)
    \/ DeleteHostLookup(t) \/ DeleteHostInterrupt(t) \/ DeleteHostWait(t)
    \/ DeleteHostDeleteThread(t) \/ DeleteHostRemoveThread(t)
    \/ DeleteHostRemoveHost(t) \/ DeleteHostDelete(t) \/ DeleteHostReturn(t)
    \/ StartPollingLock(t) \/ StartPollingNextHost(t) \/ StartPollingDone(t)
    \/ StartPollingReturn(t)
    \/ StopPollingLock(t) \/ StopPollingDiscardPending(t)
    \/ StopPollingInterruptNext(t) \/ StopPollingDone(t) \/ StopPollingReturn(t)
    \/ (t = UI /\ ServiceResolvedRemove)

\* A thread inside a call keeps running, and a worker asked to stop gets to
\* see the request.
Fairness ==
    /\ \A t \in Callers : WF_vars(CallSteps(t))
    /\ \A w \in ThreadPtrs : WF_vars(WorkerExit(w))

\* The state startPolling() leaves when it returns in a run that loaded
\* Den-PC from the persisted store: polling on, discovery on, the host's
\* worker registered and running.
Polling ==
    /\ settings = <<STORED_DEN>>
    /\ computers = [p \in ComputerPtrs |->
                      IF p = 1
                      THEN [st |-> "live", c |-> NvComputerFromSettings(STORED_DEN)]
                      ELSE [st |-> "free", c |-> BlankComputer]]
    /\ m_KnownHosts = MapPut(EmptyMap, STORED_DEN.uuid, 1)
    /\ m_PollThreads = MapPut(EmptyMap, STORED_DEN.uuid, 1)
    /\ m_Polling = TRUE
    /\ m_MdnsBrowser = TRUE
    /\ m_PendingResolution = <<>>
    /\ m_Lock = FreeLock
    /\ compLock = [p \in ComputerPtrs |-> FreeLock]
    /\ threads = [w \in ThreadPtrs |->
                    IF w = 1
                    THEN [st |-> "running", computer |-> 1,
                          interrupted |-> FALSE, selfDelete |-> FALSE]
                    ELSE [st |-> "unused", computer |-> NULL,
                          interrupted |-> FALSE, selfDelete |-> FALSE]]
    /\ eventQueue = <<>>
    /\ frame = [t \in Callers |-> NoFrame]
    /\ lastEmit = NULL
    /\ used = [calls |-> 1, polls |-> 0, services |-> 0, computers |-> 1, threads |-> 1]

InitLive ==
    /\ Polling
    /\ pc = [t \in Callers |-> "idle"]
    /\ pre = NoPre
    /\ fx = NoFx

\* While polling is on: addHost from either thread, deleteHost, the
\* workers, and the notifications they queue.
NextLive ==
    \/ \E t \in Callers : BeginAddHost(t)
    \/ \E t \in Callers : AddHostQueryFails(t)
    \/ \E t \in Callers : AddHostQueryAnswers(t)
    \/ \E t \in Callers : AddHostLookup(t)
    \/ \E t \in Callers : AddHostUpdateLock(t)
    \/ \E t \in Callers : AddHostUpdate(t)
    \/ \E t \in Callers : AddHostUnlockMerged(t)
    \/ \E t \in Callers : AddHostInsert(t)
    \/ \E t \in Callers : AddHostStartPolling(t)
    \/ \E t \in Callers : AddHostUnlockNew(t)
    \/ \E t \in Callers : AddHostReturn(t)
    \/ \E t \in Callers : EmitStateChanged(t)
    \/ \E t \in Callers : SaveHostsLock(t)
    \/ \E t \in Callers : SaveHostsLockComputer(t)
    \/ \E t \in Callers : SaveHostsSerialize(t)
    \/ \E t \in Callers : SaveHostsEnd(t)
    \/ \E t \in Callers : Return(t)
    \/ \E t \in Callers : BeginDeleteHost(t)
    \/ \E t \in Callers : DeleteHostLookup(t)
    \/ \E t \in Callers : DeleteHostInterrupt(t)
    \/ \E t \in Callers : DeleteHostWait(t)
    \/ \E t \in Callers : DeleteHostDeleteThread(t)
    \/ \E t \in Callers : DeleteHostRemoveThread(t)
    \/ \E t \in Callers : DeleteHostRemoveHost(t)
    \/ \E t \in Callers : DeleteHostDelete(t)
    \/ \E t \in Callers : DeleteHostReturn(t)
    \/ DeliverStateChanged
    \/ \E w \in ThreadPtrs : WorkerPoll(w)
    \/ \E w \in ThreadPtrs : WorkerExit(w)

SpecLive == InitLive /\ [][NextLive]_vars /\ Fairness

\* One calling thread, whose calls are observed from start to return.
InitSeq ==
    /\ \E store \in InitialStores : Constructed(store)
    /\ pc = [t \in Callers |-> IF t = UI THEN "idle" ELSE "off"]
    /\ pre = [NoPre EXCEPT !.tracking = TRUE]
    /\ fx = NoFx

SpecSeq == InitSeq /\ [][Next]_vars

-----------------------------------------------------------------------------
(* Properties of deleteHost and stopPollingAsync.                          *)

InDeleteHost(t) ==
    frame[t].op = "deleteHost" /\ pc[t] \notin {"idle", "off"}

\* deleteHost(computer) has returned to its caller.
DeleteReturned(computer) ==
    /\ computers[computer].st = "deleted"
    /\ \A t \in Callers :
          (InDeleteHost(t) /\ frame[t].computer = computer) => pc[t] = "ret"

\* C1: when deleteHost finds a registered worker it asks it to stop, and
\* for as long as that worker has not terminated the call stays at its
\* interrupt and wait steps: the worker handle and the record are still in
\* the two maps, the record is not destroyed and the call has not returned.
C1_DeleteHostJoinsWorker ==
    \A t \in Callers :
        (InDeleteHost(t) /\ frame[t].thread # NULL) =>
            LET thread == frame[t].thread
                computer == frame[t].computer
                uuid == computers[computer].c.uuid
            IN  /\ pc[t] # "dh_interrupt" => threads[thread].interrupted
                /\ threads[thread].st = "running" =>
                      /\ pc[t] \in {"dh_interrupt", "dh_wait"}
                      /\ uuid \in DOMAIN m_PollThreads /\ m_PollThreads[uuid] = thread
                      /\ uuid \in DOMAIN m_KnownHosts /\ m_KnownHosts[uuid] = computer
                      /\ computers[computer].st = "live"

\* C1 witness: deleteHost has returned for a host whose worker it found
\* registered; the worker is gone, so are the two entries and the record.
C1_Witness ==
    /\ pc[UI] = "ret" /\ frame[UI].op = "deleteHost"
    /\ frame[UI].thread # NULL
    /\ threads[frame[UI].thread].st = "deleted"
    /\ threads[frame[UI].thread].interrupted
    /\ computers[frame[UI].computer].st = "deleted"
    /\ computers[frame[UI].computer].c.uuid \notin DOMAIN m_PollThreads
    /\ computers[frame[UI].computer].c.uuid \notin DOMAIN m_KnownHosts

\* C2 as stated: once deleteHost(h) has returned, computerStateChanged is
\* never emitted for h again, unless the host has been added again.
C2_NoNotificationAfterDelete ==
    lastEmit # NULL =>
        ~(/\ DeleteReturned(lastEmit)
          /\ computers[lastEmit].c.uuid \notin DOMAIN m_KnownHosts)

InStopPolling(t) ==
    frame[t].op = "stopPollingAsync" /\ pc[t] \notin {"idle", "off"}

\* C3: past taking the manager lock, every step of stopPollingAsync can be
\* taken whatever the workers do, and when it returns the worker registry
\* is empty, polling is off and no discovery resolution is pending.
C3_StopPollingAsync ==
    \A t \in Callers :
        InStopPolling(t) =>
            /\ pc[t] \in {"st_pending", "st_threads", "st_unlock"} =>
                  ENABLED (\/ StopPollingDiscardPending(t)
                           \/ StopPollingInterruptNext(t)
                           \/ StopPollingDone(t)
                           \/ StopPollingReturn(t))
            /\ pc[t] \in {"st_unlock", "ret"} =>
                  /\ DOMAIN m_PollThreads = {}
                  /\ ~m_Polling
                  /\ m_PendingResolution = <<>>

\* C3 witness: stopPollingAsync has returned while a worker it asked to
\* stop is still running, and a pending resolution was discarded.
C3_Witness ==
    /\ pc[UI] = "ret" /\ frame[UI].op = "stopPollingAsync"
    /\ \E w \in ThreadPtrs :
          threads[w].st = "running" /\ threads[w].interrupted /\ threads[w].selfDelete
    /\ used.services > 0
    /\ DOMAIN m_PollThreads = {}

-----------------------------------------------------------------------------
(* Properties of addHost, on calls observed from start to return.          *)

\* addNewHost has returned to the observed caller.
AddHostReturned ==
    pc[UI] = "ret" /\ frame[UI].op = "addNewHost" /\ pre.valid

\* C4: when the status query fails, addHost returns false with the host
\* table, the worker registry and the persisted store as they were when the
\* call began, without having emitted a notification, and no record has
\* changed unless a worker changed it meanwhile.
C4_FailedQueryChangesNothing ==
    (AddHostReturned /\ ~frame[UI].ret) =>
        /\ m_KnownHosts = pre.m_KnownHosts
        /\ m_PollThreads = pre.m_PollThreads
        /\ settings = pre.settings
        /\ frame[UI].emitted = 0
        /\ lastEmit = NULL
        /\ pre.quiet => computers = pre.computers

\* C4 witness: a failed addHost returned with a host in the table and in
\* the store.
C4_Witness ==
    /\ AddHostReturned /\ ~frame[UI].ret
    /\ pre.quiet
    /\ DOMAIN m_KnownHosts # {}
    /\ settings # <<>>

\* C5: from an empty table, a successful addHost(address, false) whose
\* response declares id X and pair status "1" returns true with exactly one
\* record in the table, keyed by X, paired, online, its manualAddress the
\* address, and has emitted the notification exactly once.
C5_FirstAdd ==
    (/\ AddHostReturned /\ frame[UI].ret /\ pre.quiet
     /\ DOMAIN pre.m_KnownHosts = {}
     /\ ~frame[UI].mdns
     /\ frame[UI].serverInfo.PairStatus = "1") =>
        /\ DOMAIN m_KnownHosts = {frame[UI].serverInfo.uniqueid}
        /\ LET computer == m_KnownHosts[frame[UI].serverInfo.uniqueid]
           IN  /\ computer # NULL
               /\ computers[computer].st = "live"
               /\ computers[computer].c.uuid = frame[UI].serverInfo.uniqueid
               /\ computers[computer].c.pairState = PS_PAIRED
               /\ computers[computer].c.manualAddress = frame[UI].address
               /\ computers[computer].c.state = CS_ONLINE
        /\ frame[UI].emitted = 1

\* C5 witness: the scenario of the specification: Den-PC, id X, added by
\* hand at 192.0.2.10 to an empty table.
C5_Witness ==
    /\ AddHostReturned /\ frame[UI].ret /\ pre.quiet
    /\ DOMAIN pre.m_KnownHosts = {}
    /\ ~frame[UI].mdns
    /\ frame[UI].address = ADDR_MANUAL
    /\ frame[UI].serverInfo = INFO_DEN
    /\ DOMAIN m_KnownHosts = {"X"}
    /\ computers[m_KnownHosts["X"]].c.name = "Den-PC"

\* The record the table held for the response's id when the call began.
PreExisting ==
    pre.computers[pre.m_KnownHosts[frame[UI].serverInfo.uniqueid]].c

\* C6: when the table holds the record with a non-empty manualAddress, a
\* successful addHost(address, true) for its id with an address other than
\* its localAddress sets localAddress to the address, leaves manualAddress
\* as it was, adds no record, reports a change and emits exactly one
\* notification.
C6_DiscoveredMerge ==
    (/\ AddHostReturned /\ frame[UI].ret /\ pre.quiet
     /\ frame[UI].mdns
     /\ frame[UI].serverInfo.uniqueid \in DOMAIN pre.m_KnownHosts
     /\ ~IsEmpty(PreExisting.manualAddress)
     /\ ~QStrEq(frame[UI].address, PreExisting.localAddress)) =>
        LET uuid == frame[UI].serverInfo.uniqueid
        IN  /\ m_KnownHosts = pre.m_KnownHosts
            /\ computers[m_KnownHosts[uuid]].c.localAddress = frame[UI].address
            /\ computers[m_KnownHosts[uuid]].c.manualAddress = PreExisting.manualAddress
            /\ \A p \in ComputerPtrs : computers[p].st = pre.computers[p].st
            /\ frame[UI].changed
            /\ frame[UI].emitted = 1

\* C6 witness: the scenario of the specification: X known with
\* manualAddress 192.0.2.10 is found by discovery.
C6_Witness ==
    /\ AddHostReturned /\ frame[UI].ret /\ pre.quiet
    /\ frame[UI].mdns
    /\ frame[UI].serverInfo.uniqueid = "X"
    /\ "X" \in DOMAIN pre.m_KnownHosts
    /\ PreExisting.manualAddress = ADDR_MANUAL
    /\ PreExisting.localAddress = ADDR_LAN
    /\ computers[m_KnownHosts["X"]].c.localAddress = ADDR_MANUAL
    /\ computers[m_KnownHosts["X"]].c.manualAddress = ADDR_MANUAL

-----------------------------------------------------------------------------
(* Properties of persistence.                                              *)

\* The persisted entries of a host id in a hosts array.
EntriesOf(store, uuid) ==
    {i \in 1..Len(store) : store[i].uuid = uuid}

\* C11 as stated: no write-back turns a host's non-empty persisted app
\* list into an empty one: a host whose persisted entry held apps, and is
\* persisted again, still has apps.
C11_PersistedAppsKept ==
    [][\A i \in 1..Len(settings) :
          settings[i].apps # <<>> =>
              \A j \in EntriesOf(settings', settings[i].uuid) :
                  settings'[j].apps # <<>>]_vars

-----------------------------------------------------------------------------
(* Properties of the host table and the worker registry.                   *)

\* Every registered worker handle belongs to an id of the host table, and
\* every table entry points to a record that exists.
TableConsistent ==
    /\ \A uuid \in DOMAIN m_PollThreads :
          m_PollThreads[uuid] # NULL => uuid \in DOMAIN m_KnownHosts
    /\ \A uuid \in DOMAIN m_KnownHosts :
          /\ m_KnownHosts[uuid] # NULL
          /\ computers[m_KnownHosts[uuid]].st = "live"

\* C12 as stated: the table and the registry are consistent in every
\* reachable state.
C12_AsStated ==
    TableConsistent

\* C12: whenever no thread holds the manager lock for write, every id with
\* a worker handle in the registry has a record in the host table, and
\* every table entry refers to a record that is neither null nor destroyed.
C12_ConsistentWhenUnlocked ==
    m_Lock.w = NoHolder => TableConsistent

\* C12 witness: with the manager lock free, a host has been deleted and a
\* worker is registered for a host of the table.
C12_Witness ==
    /\ m_Lock.w = NoHolder
    /\ \E p \in ComputerPtrs : computers[p].st = "deleted"
    /\ \E uuid \in DOMAIN m_PollThreads :
          m_PollThreads[uuid] # NULL /\ threads[m_PollThreads[uuid]].st = "running"

\* C13 as stated: a record is never destroyed while a worker bound to it is
\* still running, whether or not the worker is still in the registry.
C13_NoRunningWorkerOnDestroyedRecord ==
    \A w \in ThreadPtrs :
        threads[w].st = "running" => computers[threads[w].computer].st # "deleted"

\* C18 as stated: no two running workers are bound to the same host,
\* workers detached from the registry included.
C18_OneWorkerPerHost ==
    \A w, v \in ThreadPtrs :
        (/\ w # v
         /\ threads[w].st = "running"
         /\ threads[v].st = "running") =>
            /\ threads[w].computer # threads[v].computer
            /\ computers[threads[w].computer].c.uuid # computers[threads[v].computer].c.uuid

\* C19 as stated: the record a computerStateChanged emission carries is,
\* at the emission, a record of the host table that has not been destroyed.
C19_NotifiedRecordInTable ==
    lastEmit # NULL =>
        /\ computers[lastEmit].st = "live"
        /\ \E uuid \in DOMAIN m_KnownHosts : m_KnownHosts[uuid] = lastEmit

\* C20: a deleteHost that has been entered returns: the join made under
\* the manager write lock ends, whatever the other thread, the workers and
\* the queued notifications do.
C20_DeleteHostReturns ==
    \A t \in Callers :
        (InDeleteHost(t) /\ pc[t] # "ret") ~> (pc[t] = "ret")

\* C20 witness: deleteHost has returned after joining a worker, while the
\* other thread waits in addHost for the manager lock and a worker's
\* notification is queued.
C20_Witness ==
    /\ pc[UI] = "ret" /\ frame[UI].op = "deleteHost"
    /\ frame[UI].thread # NULL
    /\ pc[BG] = "an_lock"
    /\ eventQueue # <<>>

-----------------------------------------------------------------------------
(* Properties of locking.                                                  *)

\* The thread holds the manager lock, for write or for read.
HoldsManagerLock(t) ==
    m_Lock.w = t \/ t \in m_Lock.r

\* The thread holds the lock of some record.
HoldsRecordLock(t) ==
    \E p \in ComputerPtrs : compLock[p].w = t \/ t \in compLock[p].r

\* The thread is at a step that acquires the manager lock.
AcquiringManagerLock(t) ==
    pc[t] \in {"an_lock", "sv_lock", "dh_lock", "sp_lock", "st_lock"}

\* C14: a thread about to acquire the manager lock holds no record's lock,
\* and a thread that holds a record's lock holds the manager lock, which
\* it took first.
C14_LockOrder ==
    \A t \in Callers :
        /\ AcquiringManagerLock(t) => ~HoldsRecordLock(t)
        /\ HoldsRecordLock(t) => HoldsManagerLock(t)

\* C14 witness: one thread holds the manager lock and a record's lock while
\* the other waits for the manager lock.
C14_Witness ==
    \E t, o \in Callers :
        /\ HoldsManagerLock(t) /\ HoldsRecordLock(t)
        /\ o # t /\ AcquiringManagerLock(o)

\* The thread is about to emit computerStateChanged or to start saveHosts.
Notifying(t) ==
    pc[t] \in {"hcs_emit", "sv_lock"}

\* C15: a thread that is about to emit computerStateChanged, or to start
\* the write-back of saveHosts, does not hold the manager lock.
C15_NotifiesUnlocked ==
    \A t \in Callers : Notifying(t) => ~HoldsManagerLock(t)

\* C15 witness: one thread notifies a merge that changed a record while the
\* other notifies a host it has just inserted.
C15_Witness ==
    \E t, o \in Callers :
        /\ Notifying(t) /\ frame[t].op = "addNewHost" /\ frame[t].changed
        /\ Notifying(o) /\ frame[o].op = "addNewHost" /\ ~frame[o].changed

-----------------------------------------------------------------------------
(* Specifications of the pure functions: the inputs are drawn in the       *)
(* initial state, the manager is not running.                              *)

ADDR_WAN == "203.0.113.5"

\* No thread calls into the manager.
ManagerOff ==
    /\ Constructed(<<>>)
    /\ pc = [t \in Callers |-> "off"]
    /\ pre = NoPre

\* Records the program builds: from a response (as addNewHost or a worker
\* does), from a persisted entry, and either with a fetched app list.
ResponseRecords ==
    {NewComputer(a, si, m) : a \in Addresses, si \in ServerInfos, m \in BOOLEAN}
        \cup {NvComputerFromServerInfo(a, si) : a \in Addresses, si \in ServerInfos}
WithApps(records) == {[c EXCEPT !.appList = apps] : c \in records, apps \in AppLists}
StoredEntries == {serialize(c, <<>>) : c \in WithApps(ResponseRecords)}
LoadedRecords == {NvComputerFromSettings(e) : e \in StoredEntries}
RecordPool == WithApps(ResponseRecords) \cup LoadedRecords

ComputerStateList == <<CS_UNKNOWN, CS_OFFLINE, CS_ONLINE>>
ComputerStates == {ComputerStateList[k] : k \in 1..Len(ComputerStateList)}

\* --- update ---
InitUpdate ==
    /\ ManagerOff
    /\ \E this \in RecordPool, that \in RecordPool :
          /\ QStrEq(this.uuid, that.uuid)
          /\ fx = [op |-> "update", stage |-> 0, this |-> this, that |-> that,
                   first |-> [computer |-> this, changed |-> FALSE, asserted |-> TRUE],
                   second |-> [computer |-> this, changed |-> FALSE, asserted |-> TRUE]]

\* existing->update(observed)
UpdateOnce ==
    /\ fx.stage = 0
    /\ fx' = [fx EXCEPT !.stage = 1, !.first = update(fx.this, fx.that)]
    /\ UNCHANGED mgrVars

\* the same observation merged a second time
UpdateAgain ==
    /\ fx.stage = 1
    /\ fx' = [fx EXCEPT !.stage = 2, !.second = update(fx.first.computer, fx.that)]
    /\ UNCHANGED mgrVars

NextUpdate == UpdateOnce \/ UpdateAgain

SpecUpdate == InitUpdate /\ [][NextUpdate]_vars

\* --- uniqueAddresses ---
AddressValues == {QNull, "", ADDR_MANUAL, ADDR_LAN, ADDR_WAN}

InitAddresses ==
    /\ ManagerOff
    /\ \E a \in AddressValues, l \in AddressValues, r \in AddressValues,
          m \in AddressValues, build \in Builds :
          fx = [op |-> "uniqueAddresses", stage |-> 0, build |-> build,
                computer |-> [BlankComputer EXCEPT !.activeAddress = a,
                                 !.localAddress = l, !.remoteAddress = r,
                                 !.manualAddress = m],
                list |-> <<>>, aborted |-> FALSE]

\* computer.uniqueAddresses()
CallUniqueAddresses ==
    /\ fx.stage = 0
    /\ LET r == uniqueAddresses(fx.computer)
       IN  fx' = [fx EXCEPT !.stage = 1, !.list = r.list,
                     !.aborted = Aborts(fx.build, r.asserted)]
    /\ UNCHANGED mgrVars

NextAddresses == CallUniqueAddresses

SpecAddresses == InitAddresses /\ [][NextAddresses]_vars

\* --- wake ---
\* The network treats the broadcast address one way and every other target
\* another way.
Networks ==
    {[a \in AddressValues \cup {BROADCAST} |-> IF a = BROADCAST THEN b ELSE o] :
        b \in NetOutcomes, o \in NetOutcomes}

InitWake ==
    /\ ManagerOff
    /\ \E k \in 1..Len(ComputerStateList), c \in RecordPool, net \in Networks,
          build \in Builds :
          fx = [op |-> "wake", stage |-> 0, build |-> build, net |-> net,
                computer |-> [c EXCEPT !.state = ComputerStateList[k]],
                res |-> [ret |-> FALSE, sent |-> {}, aborted |-> FALSE, payload |-> <<>>]]

\* computer.wake()
CallWake ==
    /\ fx.stage = 0
    /\ fx' = [fx EXCEPT !.stage = 1, !.res = wake(fx.computer, fx.net, fx.build)]
    /\ UNCHANGED mgrVars

NextWake == CallWake

SpecWake == InitWake /\ [][NextWake]_vars

\* --- one record of the host table, from addNewHost on ---
\* What a merge can be handed for a record: the record addNewHost built
\* for the same host, or an observation of it, whose activeAddress may be
\* empty.
Observations(uuid) ==
    {c \in {NewComputer(a, si, m) : a \in Addresses, si \in ServerInfos, m \in BOOLEAN}
              \cup {NvComputerFromServerInfo(a, si) :
                       a \in Addresses \cup {QNull, ""}, si \in ServerInfos} :
        QStrEq(c.uuid, uuid)}

\* addNewHost(address, mdns) with a non-empty address stores a new record.
InitRecord ==
    /\ ManagerOff
    /\ \E a \in Addresses, si \in ServerInfos, m \in BOOLEAN :
          fx = [op |-> "record", stage |-> 0, computer |-> NewComputer(a, si, m),
                emptyMerges |-> 0, reloads |-> 0]

\* existing->update(that)
MergeRecord ==
    /\ fx.stage < MaxRecordSteps
    /\ \E that \in Observations(fx.computer.uuid) :
          fx' = [fx EXCEPT !.stage = @ + 1,
                           !.computer = update(fx.computer, that).computer,
                           !.emptyMerges = IF IsEmpty(that.activeAddress) THEN 1 ELSE @]
    /\ UNCHANGED mgrVars

\* saveHosts writes the record and a later run loads it.
ReloadRecord ==
    /\ fx.stage < MaxRecordSteps
    /\ fx' = [fx EXCEPT !.stage = @ + 1,
                        !.computer = NvComputerFromSettings(serialize(fx.computer, <<>>)),
                        !.reloads = 1]
    /\ UNCHANGED mgrVars

NextRecord == MergeRecord \/ ReloadRecord

SpecRecord == InitRecord /\ [][NextRecord]_vars

-----------------------------------------------------------------------------
(* Properties of update.                                                   *)

AllFields == {UpdateSteps[k][1] : k \in 1..Len(UpdateSteps)}
NonEmptyFields == {UpdateSteps[k][1] : k \in {n \in 1..Len(UpdateSteps) : UpdateSteps[n][2]}}

\* The observation holds nothing for this field.
ObservedEmpty(field) == field \in NonEmptyFields /\ FieldIsEmpty(field, fx.that[field])

\* C7: for macAddress, localAddress, remoteAddress, manualAddress and
\* appList, an empty observed value leaves the existing value as it was, and
\* whenever update reports a change, a field whose observed value was not
\* empty is the one that changed.
C7_EmptyObservationKeepsField ==
    (fx.op = "update" /\ fx.stage >= 1) =>
        /\ \A field \in NonEmptyFields :
              FieldIsEmpty(field, fx.that[field]) =>
                  fx.first.computer[field] = fx.this[field]
        /\ fx.first.changed =>
              \E field \in AllFields :
                  /\ ~ObservedEmpty(field)
                  /\ fx.first.computer[field] # fx.this[field]
        /\ (\A field \in AllFields :
               ObservedEmpty(field) \/ ~FieldDiffers(field, fx.this[field], fx.that[field]))
              => ~fx.first.changed

\* C7 witness: a known app list met an observation without one, and the
\* merge kept it and reported no change.
C7_Witness ==
    /\ fx.op = "update" /\ fx.stage = 1
    /\ fx.this.appList = <<APP_GAME_A>>
    /\ fx.that.appList = <<>>
    /\ fx.first.computer.appList = <<APP_GAME_A>>
    /\ ~fx.first.changed

\* C8: merging a field-for-field copy of the record reports no change and
\* changes no field, and merging the same observation a second time reports
\* no change.
C8_UpdateIdempotent ==
    /\ (fx.op = "update" /\ fx.stage >= 1 /\ fx.that = fx.this) =>
          (~fx.first.changed /\ fx.first.computer = fx.this)
    /\ (fx.op = "update" /\ fx.stage = 2) =>
          (~fx.second.changed /\ fx.second.computer = fx.first.computer)

\* C8 witness: an observation that changed the record the first time was
\* merged again.
C8_Witness ==
    /\ fx.op = "update" /\ fx.stage = 2
    /\ fx.first.changed
    /\ fx.first.computer # fx.this
    /\ ~fx.second.changed

-----------------------------------------------------------------------------
(* Properties of uniqueAddresses.                                          *)

\* The four address fields in precedence order.
AddressFields(computer) ==
    <<computer.activeAddress, computer.localAddress,
      computer.remoteAddress, computer.manualAddress>>

\* The first position of a value among the four fields.
FirstPosition(computer, value) ==
    CHOOSE k \in 1..4 :
        /\ QStrEq(AddressFields(computer)[k], value)
        /\ \A j \in 1..(k - 1) : ~QStrEq(AddressFields(computer)[j], value)

\* list holds exactly the distinct non-empty values of the four fields, each
\* once, in the order of their first positions.
DistinctInPrecedenceOrder(computer, list) ==
    /\ {list[k] : k \in 1..Len(list)} =
          {AddressFields(computer)[k] : k \in {n \in 1..4 : ~IsEmpty(AddressFields(computer)[n])}}
    /\ \A i \in 1..Len(list), j \in 1..Len(list) : i # j => list[i] # list[j]
    /\ \A i \in 1..Len(list), j \in 1..Len(list) :
          i < j => FirstPosition(computer, list[i]) < FirstPosition(computer, list[j])

AllAddressesEmpty(computer) == \A k \in 1..4 : IsEmpty(AddressFields(computer)[k])

\* C9 as stated: for every combination of the four address values,
\* uniqueAddresses returns exactly the distinct non-empty values in
\* precedence order.
C9_AsStated ==
    (fx.op = "uniqueAddresses" /\ fx.stage = 1) =>
        (~fx.aborted /\ DistinctInPrecedenceOrder(fx.computer, fx.list))

\* C9 amended: when at least one of the four values is not empty,
\* uniqueAddresses returns exactly the distinct non-empty values, each once,
\* in precedence order; when all four are empty its non-empty assertion
\* fails, which ends a debug build and leaves a release build returning the
\* empty list.
C9_UniqueAddresses ==
    (fx.op = "uniqueAddresses" /\ fx.stage = 1) =>
        /\ ~AllAddressesEmpty(fx.computer) =>
              (~fx.aborted /\ DistinctInPrecedenceOrder(fx.computer, fx.list))
        /\ AllAddressesEmpty(fx.computer) =>
              (fx.list = <<>> /\ (fx.aborted <=> fx.build = "debug"))

\* C9 witness: an empty value, a repeated value and a second value went in,
\* and two came out.
C9_Witness ==
    /\ fx.op = "uniqueAddresses" /\ fx.stage = 1
    /\ fx.computer.activeAddress = QNull
    /\ fx.computer.localAddress = ADDR_LAN
    /\ fx.computer.remoteAddress = ADDR_LAN
    /\ fx.computer.manualAddress = ADDR_MANUAL
    /\ fx.list = <<ADDR_LAN, ADDR_MANUAL>>
    /\ ~fx.aborted

-----------------------------------------------------------------------------
(* Properties of wake.                                                     *)

\* C10 as stated: for every record whose physical address is empty, whatever
\* its connectionState, wake returns false and hands nothing to the network.
C10_WakeWithoutMac ==
    (fx.op = "wake" /\ fx.stage = 1 /\ fx.computer.macAddress.bytes = <<>>) =>
        (fx.res.ret = FALSE /\ fx.res.sent = {} /\ ~fx.res.aborted)

\* C16 as stated: for a record that gets past the two checks of wake (it is
\* not online and its macAddress is not null), the payload built is 102
\* bytes: six 0xFF bytes and sixteen copies of a 6-byte macAddress.
C16_PayloadLength ==
    (/\ fx.op = "wake" /\ fx.stage = 1
     /\ fx.computer.state # CS_ONLINE
     /\ ~fx.computer.macAddress.null) =>
        /\ Len(fx.computer.macAddress.bytes) = 6
        /\ Len(fx.res.payload) = 102
        /\ fx.res.payload =
              <<255, 255, 255, 255, 255, 255>> \o RepeatBytes(fx.computer.macAddress.bytes, 16)

\* C17: a record that addHost built with a non-empty address keeps at
\* least one non-empty value among activeAddress, localAddress,
\* remoteAddress and manualAddress through merges and reloads, so the
\* assertion of uniqueAddresses holds for it.
C17_SomeAddressKept ==
    fx.op = "record" =>
        /\ ~AllAddressesEmpty(fx.computer)
        /\ uniqueAddresses(fx.computer).asserted

\* C17 witness: the record has been reloaded and merged with an observation
\* whose activeAddress is empty, and its own activeAddress is empty.
C17_Witness ==
    /\ fx.op = "record"
    /\ fx.reloads > 0 /\ fx.emptyMerges > 0
    /\ IsEmpty(fx.computer.activeAddress)


====
